---- MODULE Spec2Model ----
(***************************************************************************)
(* Model of the UNX MCP server in its two variants: the stateless          *)
(* dispatcher (POST /mcp of src/index.js) with its three tool handlers,    *)
(* and the streaming variant (GET /sse and the tool handlers registered on *)
(* the McpServer), both over the Supabase repository.                      *)
(*                                                                         *)
(* Strings are sequences of tokens (a token is a TLA+ string); a response  *)
(* text is the sequence of the fragments of its template literal, in       *)
(* template order.  JavaScript values that may be undefined are records    *)
(* [t, v] : t is the type tag and v the text of the value.                 *)
(***************************************************************************)
EXTENDS Integers, Sequences, FiniteSets, TLC

VARIABLES
    variant,    \* which of the two servers runs: "stateless" or "streaming"
    sse,        \* streaming variant: open streams, and what GET /sse built for req
    env,        \* process.env.MCP_API_KEY
    db,         \* the five relations of the repository
    pc,         \* position of the request handler
    req,        \* the request being handled: [body, auth]
    loc,        \* the handler's local constants (data, course, priceInfo, ...)
    calls,      \* repository lookups issued while handling req, in order
    returns,    \* what the repository answered to each of them, in order
    res,        \* the response sent for req
    nres,       \* number of responses sent for req
    escaped,    \* an exception left the request handler
    nHandled,   \* requests completed so far
    initSeen,   \* an initialize request was completed before
    conc        \* the invocations of the POST /mcp handler that overlap in time

vars == <<variant, sse, env, db, pc, req, loc, calls, returns, res, nres, escaped, nHandled, initSeen, conc>>

-----------------------------------------------------------------------------
(* Bounds *)

MaxRequests == 2

\* requests that arrive while handlers overlap
MaxArrivals == 3

-----------------------------------------------------------------------------
(* JavaScript values *)

Undefined == "undefined"

U == [t |-> "undefined", v |-> <<>>]
S(x) == [t |-> "string", v |-> x]
N(x) == [t |-> "number", v |-> x]

\* `${x}` : the text a template literal interpolates for x
TemplateStr(x) == IF x.t = "undefined" THEN <<"undefined">> ELSE x.v

\* if (x) ... / x || y
Truthy(x) ==
    \/ x.t = "string" /\ x.v # <<>>
    \/ x.t = "number" /\ x.v # <<"0">>

-----------------------------------------------------------------------------
(* The repository: PostgREST filters as the queries of the handlers use them *)

Lower(c) ==
    CASE c = "A" -> "a"
      [] c = "I" -> "i"
      [] c = "E" -> "e"
      [] c = "G" -> "g"
      [] c = "M" -> "m"
      [] c = "Z" -> "z"
      [] c = "P" -> "p"
      [] OTHER -> c

LowerText(s) == [i \in 1..Len(s) |-> Lower(s[i])]

Contains(s, p) ==
    \E i \in 0..(Len(s) - Len(p)) : SubSeq(s, i + 1, i + Len(p)) = p

\* .ilike(column, `%${p}%`)
ILike(s, p) == Contains(LowerText(s), LowerText(p))

CURRENT_CALENDAR == "2026B"
StaleCalendar == "2025B"

\* a row of courses, with the columns either variant selects
Course(id, name, active, category, duration, modality) ==
    [id |-> id, name |-> name, active |-> active, category |-> category,
     duration_label |-> duration,
     status |-> IF active THEN "active" ELSE "inactive", modality |-> modality,
     start_date |-> <<"2026-09-01">>, end_date |-> <<"2026-11-30">>,
     price_list |-> <<"2000">>, price_promo |-> <<"1500">>,
     promo_deadline |-> <<"2026-08-01">>, down_payment |-> <<"500">>,
     schedule_summary |-> <<"L-V 9:00">>,
     purchase_url |-> <<"https://unx.mx/modalidades-paa/">>,
     image_url |-> <<"https://unx.mx/", id, ".png">>,
     description |-> <<"Material y simulacros">>]

Price(cid, cal, modality, list, promo) ==
    [course_id |-> cid, calendar |-> cal, modality |-> modality,
     list_price |-> list, promo_price |-> promo,
     valid_until |-> <<"2026-08-01">>, reserve_amount |-> <<"500">>]

Session(cid, cal, modality, start, label) ==
    [course_id |-> cid, calendar |-> cal, modality |-> modality,
     start_date |-> start, end_date |-> <<"2026-11-30">>,
     schedule_label |-> label]

Media(cid, kind, url) == [course_id |-> cid, kind |-> kind, url |-> url]

Career(career, cid) == [career |-> career, recommended_course_id |-> cid]

FullDb ==
    [courses |->
        { Course("c1", <<"I", "n", "t">>, TRUE, "PAA", <<"8 semanas">>, <<"Z", "o">>),
          Course("c2", <<"E", "x", "p">>, TRUE, "PAA", <<"4 semanas">>, <<"P", "r">>),
          Course("c3", <<"G", "e", "o">>, TRUE, "EXANI", <<"6 semanas">>, <<"Z", "o">>),
          Course("c4", <<"I", "n", "a">>, FALSE, "PAA", <<"2 semanas">>, <<"P", "r">>) },
     pricing |->
        { Price("c1", CURRENT_CALENDAR, <<"Z", "o">>, <<"2000">>, <<"1500">>),
          Price("c1", StaleCalendar, <<"Z", "o">>, <<"1800">>, <<"1300">>),
          Price("c2", StaleCalendar, <<"P", "r">>, <<"900">>, <<"700">>),
          Price("c3", CURRENT_CALENDAR, <<"Z", "o">>, <<"1000">>, <<"800">>) },
     sessions |->
        { Session("c1", CURRENT_CALENDAR, <<"P", "r">>, <<"2026-09-01">>, <<"L-V 9:00">>),
          Session("c2", StaleCalendar, <<"P", "r">>, <<"2025-09-01">>, <<"S 8:00">>),
          Session("c3", CURRENT_CALENDAR, <<"P", "r">>, <<"2026-10-01">>, <<"D 10:00">>) },
     course_media |->
        { Media("c1", "image_main", <<"https://unx.mx/c1.png">>),
          Media("c1", "banner", <<"https://unx.mx/c1-banner.png">>),
          Media("c3", "banner", <<"https://unx.mx/c3-banner.png">>) },
     careers_map |->
        { Career(<<"M", "e", "d">>, "c1"),
          Career(<<"A", "r", "q">>, "c9") }]

EmptyDb ==
    [courses |-> {}, pricing |-> {}, sessions |-> {}, course_media |-> {},
     careers_map |-> {}]

DbConfigs == {FullDb, EmptyDb}

-----------------------------------------------------------------------------
(* The queries the handlers build, and what the client resolves them to *)

Query(kind, table, pattern, cid, cal, narrowed, modality, limit) ==
    [kind |-> kind, table |-> table, op |-> "select", pattern |-> pattern,
     course_id |-> cid, calendar |-> cal, narrowed |-> narrowed,
     modality |-> modality, limit |-> limit]

\* from('careers_map').select(..).ilike('career', `%${career}%`).limit(1)
CareerQuery(career) ==
    Query("career", "careers_map", TemplateStr(career), "", "", FALSE, <<>>, "limit1")

\* from('courses').select('name').eq('id', id).single()
CourseNameQuery(id) ==
    Query("courseName", "courses", <<>>, id, "", FALSE, <<>>, "single")

\* from('courses').select(..).eq('active', true).eq('category', 'PAA')
ActiveCoursesQuery ==
    Query("activeCourses", "courses", <<>>, "", "", FALSE, <<>>, "all")

\* from('courses').select('*').ilike('name', `%${keyword}%`).eq('active', true).limit(1)
CourseQuery(keyword) ==
    Query("course", "courses", TemplateStr(keyword), "", "", FALSE, <<>>, "limit1")

\* mutant of MediaQuery: the builder ends in .delete() instead of .select('url')
MediaQueryDeleting(id) ==
    [Query("media", "course_media", <<>>, id, "", FALSE, <<>>, "limit1") EXCEPT !.op = "delete"]

\* mutant of PriceQuery: the calendar filter is left out
PriceQueryAnyCalendar(id, modality) ==
    Query("price", "pricing", <<>>, id, "", Truthy(modality),
          IF Truthy(modality) THEN TemplateStr(modality) ELSE <<>>, "limit1")

\* from('pricing').select('*').eq('course_id', id).eq('calendar', CURRENT_CALENDAR)
\* [.ilike('modality', `%${modality}%`)].limit(1)
PriceQuery(id, modality) ==
    Query("price", "pricing", <<>>, id, CURRENT_CALENDAR, Truthy(modality),
          IF Truthy(modality) THEN TemplateStr(modality) ELSE <<>>, "limit1")

\* from('sessions').select('*').eq('course_id', id).eq('calendar', CURRENT_CALENDAR)
\* [.ilike('modality', `%${modality}%`)].limit(1)
SessionQuery(id, modality) ==
    Query("session", "sessions", <<>>, id, CURRENT_CALENDAR, Truthy(modality),
          IF Truthy(modality) THEN TemplateStr(modality) ELSE <<>>, "limit1")

\* from('course_media').select('url').eq('course_id', id).eq('kind', 'image_main').limit(1)
MediaQuery(id) ==
    Query("media", "course_media", <<>>, id, "", FALSE, <<>>, "limit1")

\* streaming: from('courses').select(..).eq('status', 'active')
SseActiveCoursesQuery ==
    Query("sseActiveCourses", "courses", <<>>, "", "", FALSE, <<>>, "all")

\* streaming: from('courses').select('*').ilike('name', `%${keyword}%`)
\* .ilike('modality', `%${modality}%`).eq('status', 'active').limit(1)
SseCourseQuery(keyword, modality) ==
    Query("sseCourse", "courses", TemplateStr(keyword), "", "", TRUE,
          TemplateStr(modality), "limit1")

\* the rows of d that satisfy the filters of q
Rows(d, q) ==
    CASE q.kind = "career" ->
            {r \in d.careers_map : ILike(r.career, q.pattern)}
      [] q.kind = "courseName" ->
            {r \in d.courses : r.id = q.course_id}
      [] q.kind = "activeCourses" ->
            {r \in d.courses : r.active /\ r.category = "PAA"}
      [] q.kind = "course" ->
            {r \in d.courses : ILike(r.name, q.pattern) /\ r.active}
      [] q.kind = "price" ->
            {r \in d.pricing : /\ r.course_id = q.course_id
                               /\ q.calendar # "" => r.calendar = q.calendar
                               /\ q.narrowed => ILike(r.modality, q.modality)}
      [] q.kind = "session" ->
            {r \in d.sessions : /\ r.course_id = q.course_id
                                /\ q.calendar # "" => r.calendar = q.calendar
                                /\ q.narrowed => ILike(r.modality, q.modality)}
      [] q.kind = "media" ->
            {r \in d.course_media : r.course_id = q.course_id /\ r.kind = "image_main"}
      [] q.kind = "sseActiveCourses" ->
            {r \in d.courses : r.status = "active"}
      [] q.kind = "sseCourse" ->
            {r \in d.courses : /\ ILike(r.name, q.pattern)
                               /\ ILike(r.modality, q.modality)
                               /\ r.status = "active"}

\* what an operation leaves of the relations: a select leaves them as they
\* are, any other operation (update, delete, upsert) touches the rows it matches
Effect(d, q) ==
    IF q.op = "select" THEN d
    ELSE [d EXCEPT ![q.table] = @ \ Rows(d, q)]

Orderings(rows) ==
    {p \in [1..Cardinality(rows) -> rows] : {p[i] : i \in 1..Cardinality(rows)} = rows}

Ok(rows) == [kind |-> "ok", rows |-> rows]
DbError == [kind |-> "error", rows |-> <<>>]      \* {data: null, error: {...}}
NullData == [kind |-> "nulldata", rows |-> <<>>]  \* {data: null, error: null}
Rejected == [kind |-> "reject", rows |-> <<>>]    \* the awaited promise rejects

FaultMessage == <<"backing store fault">>

\* what `await <query>` may resolve to: the rows in an order the store picks
\* (limit(1) keeps the first, single() faults unless exactly one row matches),
\* or a fault of the backing store
Outcomes(d, q) ==
    LET rows == Rows(d, q) IN
    (CASE q.limit = "all" -> {Ok(p) : p \in Orderings(rows)}
       [] q.limit = "limit1" ->
            IF rows = {} THEN {Ok(<<>>)} ELSE {Ok(<<r>>) : r \in rows}
       [] q.limit = "single" ->
            IF Cardinality(rows) = 1 THEN {Ok(<<r>>) : r \in rows} ELSE {DbError})
    \cup {DbError, NullData, Rejected}

-----------------------------------------------------------------------------
(* Requests *)

Methods ==
    {"initialize", "notifications/initialized", "tools/list", "tools/call",
     "resources/list", Undefined}

Ids == {"1", "2", Undefined}

Secret == <<"s3cret">>

Args(t, keyword, modality, career) ==
    [t |-> t, keyword |-> keyword, modality |-> modality, career |-> career]

Keywords == {S(<<"i", "n">>), S(<<"e">>), S(<<"g">>), S(<<"q">>)}
Modalities == {U, S(<<"z", "o">>), S(<<"p", "r">>), S(<<"q">>)}
Careers == {S(<<"m", "e">>), S(<<"a", "r">>), S(<<"z">>)}

\* a property sent with a value that is not a string
NonString == N(<<"5">>)

\* params.arguments: absent, null, a string, or an object
ArgValues ==
    {Args("undefined", U, U, U), Args("null", U, U, U), Args("string", U, U, U),
     Args("object", U, U, U), Args("object", U, S(<<"z", "o">>), U)}
    \cup {Args("object", k, m, U) : k \in Keywords, m \in Modalities}
    \cup {Args("object", U, U, c) : c \in Careers}
    \cup {Args("object", NonString, U, U), Args("object", S(<<"i", "n">>), NonString, U),
          Args("object", U, U, NonString)}

ToolNames ==
    {"recommend_course", "get_active_courses", "get_course_details",
     "delete_course", Undefined}

NoParams == [t |-> "undefined", name |-> Undefined, arguments |-> Args("undefined", U, U, U)]

ParamValues ==
    {NoParams} \cup {[t |-> "object", name |-> n, arguments |-> a] :
                        n \in ToolNames, a \in ArgValues}

\* the decoded bodies delivered to the handler
Messages ==
    {[method |-> "tools/call", id |-> i, params |-> p] : i \in Ids, p \in ParamValues}
    \cup {[method |-> m, id |-> i, params |-> NoParams] :
            m \in Methods \ {"tools/call"}, i \in Ids}

\* req.headers['authorization']
AuthHeaders ==
    {U, S(<<>>), S(<<"Bearer ", "s3cret">>), S(<<"Bearer ", "wrong">>),
     S(<<"Basic ", "s3cret">>), S(<<"Bearer ", "undefined">>)}

\* the x-api-key header and the 'key' query parameter of GET /sse
ApiKeys == {U, S(Secret), S(<<"wrong">>)}

NoMessage == [method |-> Undefined, id |-> Undefined, params |-> NoParams]

Request(route, body, auth, header, query) ==
    [route |-> route, body |-> body, auth |-> auth, xApiKey |-> header, key |-> query]

NoRequest == Request("", NoMessage, U, U, U)

-----------------------------------------------------------------------------
(* Response bodies *)

\* JSON.stringify drops a key whose value is undefined
WithId(id, body) == IF id = Undefined THEN body ELSE [id |-> id] @@ body

EmptyBody == [empty |-> TRUE]

InitializeBody(id) ==
    WithId(id,
        [jsonrpc |-> "2.0",
         result |-> [protocolVersion |-> "2024-11-05",
                     capabilities |-> [tools |-> [listChanged |-> FALSE]],
                     serverInfo |-> [name |-> "unx_mcp_advanced", version |-> "2.0.0"]]])

Catalog ==
    << [name |-> "get_active_courses",
        description |-> "Lista los cursos PAA activos. Usala para dar info general.",
        inputSchema |-> [type |-> "object", properties |-> {}, required |-> {}]],
       [name |-> "get_course_details",
        description |-> "Obtiene precio, horarios, fechas e imagen de un curso especifico.",
        inputSchema |-> [type |-> "object",
                         properties |-> {[name |-> "keyword", type |-> "string"],
                                         [name |-> "modality", type |-> "string"]},
                         required |-> {"keyword"}]],
       [name |-> "recommend_course",
        description |-> "Recomienda un curso basado en la carrera o universidad.",
        inputSchema |-> [type |-> "object",
                         properties |-> {[name |-> "career", type |-> "string"]},
                         required |-> {"career"}]] >>

\* the inputSchema the catalog announces for a tool
AnnouncedSchema(name) ==
    (CHOOSE t \in {Catalog[i] : i \in 1..Len(Catalog)} : t.name = name).inputSchema

\* args[p]
ArgProp(args, p) ==
    CASE p = "keyword" -> args.keyword
      [] p = "modality" -> args.modality
      [] p = "career" -> args.career

\* JSON Schema validation of an arguments object against an announced
\* inputSchema (type, required, the type of each present property); absent
\* arguments are validated as the empty object
SchemaAccepts(schema, args) ==
    LET a == IF args.t = "undefined" THEN Args("object", U, U, U) ELSE args
    IN  /\ a.t = schema.type
        /\ \A p \in schema.required : ArgProp(a, p) # U
        /\ \A pr \in schema.properties :
              ArgProp(a, pr.name) # U => ArgProp(a, pr.name).t = pr.type

\* mutant of ToolsListBody: the minimum catalog, without recommend_course
ToolsListBodyMinimum(id) ==
    WithId(id, [jsonrpc |-> "2.0", result |-> [tools |-> SubSeq(Catalog, 1, 2)]])

ToolsListBody(id) == WithId(id, [jsonrpc |-> "2.0", result |-> [tools |-> Catalog]])

TextResult(id, text) ==
    WithId(id, [jsonrpc |-> "2.0",
                result |-> [content |-> <<[type |-> "text", text |-> text]>>]])

ErrorBody(id, message) ==
    WithId(id, [jsonrpc |-> "2.0", error |-> [code |-> -32603, message |-> message]])

UnauthorizedBody == [error |-> "Unauthorized"]
NotFoundBody == [error |-> "Method not found"]

-----------------------------------------------------------------------------
(* Response texts: the fragments of each template literal *)

RecommendFallbackText ==
    << <<"No encontre una recomendacion especifica, pero el curso Integral suele ser la mejor opcion general.">> >>

RecommendText(career, courseName) ==
    << <<"Para la carrera de ">>, career, <<", recomendamos el curso: ">>, courseName, <<".">> >>

\* lines.join("\n")
RECURSIVE Join(_)
Join(lines) ==
    IF lines = <<>> THEN <<>>
    ELSE IF Len(lines) = 1 THEN lines[1]
    ELSE lines[1] \o << <<"\n">> >> \o Join(Tail(lines))

\* `* ${c.name} (${c.duration_label})`
CourseLine(c) == << <<"* ">>, c.name, <<" (">>, c.duration_label, <<")">> >>

ActiveCoursesText(data) ==
    << <<"Cursos PAA Disponibles:\n">> >>
    \o Join([i \in 1..Len(data) |-> CourseLine(data[i])])

CourseNotFoundText == << <<"No encontre ese curso activo.">> >>

DefaultImageUrl == <<"https://unx.mx">>

\* priceInfo, sessionInfo: <<>> for null, <<row>> otherwise
DetailsText(course, priceInfo, sessionInfo, imageUrl, modality) ==
    << <<"DETALLES: ">>, course.name,
       <<"Duracion: ">>, course.duration_label,
       <<"Modalidad: ">>,
          IF priceInfo # <<>> THEN priceInfo[1].modality
          ELSE IF Truthy(modality) THEN TemplateStr(modality) ELSE <<"General">>,
       <<"Fechas: ">>,
          IF sessionInfo # <<>>
          THEN sessionInfo[1].start_date \o <<" al ">> \o sessionInfo[1].end_date
          ELSE <<"Por confirmar">>,
       <<"PRECIOS (Calendario ">>, <<CURRENT_CALENDAR>>,
       <<"Precio Lista: $">>,
          IF priceInfo # <<>> THEN priceInfo[1].list_price ELSE <<"---">>,
       <<"Precio Promo: $">>,
          IF priceInfo # <<>> THEN priceInfo[1].promo_price ELSE <<"---">>,
       <<"Vigencia Promo: Hasta ">>,
          IF priceInfo # <<>> THEN priceInfo[1].valid_until ELSE <<"agotar existencias">>,
       <<"Apartado: $">>,
          IF priceInfo # <<>> THEN priceInfo[1].reserve_amount ELSE <<"---">>,
       <<"HORARIOS">>,
          IF sessionInfo # <<>> THEN sessionInfo[1].schedule_label ELSE <<"Consultar en web">>,
       <<"Link de Compra: https://unx.mx/modalidades-paa/">>,
       <<"Ver imagen: ">>, imageUrl >>

\* streaming: `- ${c.name} (${c.modality}): Inicia ${c.start_date}. Promo: $${..}. Horario: ${..}`
SseCourseLine(c) ==
    << <<"- ">>, c.name, <<" (">>, c.modality, <<"): Inicia ">>, c.start_date,
       <<". Promo: $">>, c.price_promo, <<". Horario: ">>, c.schedule_summary >>

SseActiveCoursesText(data) ==
    << <<"Cursos disponibles actualmente:\n">> >>
    \o Join([i \in 1..Len(data) |-> SseCourseLine(data[i])])

SseListErrorText(message) == << <<"Error consultando base de datos: ">>, message >>

SseDetailsErrorText(message) == << <<"Error en base de datos: ">>, message >>

SseNotFoundText(keyword, modality) ==
    << <<"No encontre informacion activa para el curso '">>, TemplateStr(keyword),
       <<"' en modalidad '">>, TemplateStr(modality),
       <<"'. Por favor verifica el nombre o la modalidad.">> >>

SseDetailsText(course) ==
    << <<"DETALLES DEL CURSO: ">>, course.name, <<" (">>, course.modality, <<")">>,
       <<"Inicio: ">>, course.start_date, <<" | Fin: ">>, course.end_date,
       <<"Precio Lista: $">>, course.price_list,
       <<"Precio Promo: $">>, course.price_promo,
       <<" (Valido hasta: ">>, course.promo_deadline, <<")">>,
       <<"Apartado: $">>, course.down_payment,
       <<"Horarios: ">>, course.schedule_summary,
       <<"Link Compra: ">>, course.purchase_url,
       <<"Imagen: ">>, course.image_url,
       <<"LO QUE INCLUYE:">>, course.description >>

-----------------------------------------------------------------------------
(* The request handler of POST /mcp, one step per stretch of code between   *)
(* two awaits.  A step says what the stretch ends in: a response, a lookup  *)
(* being awaited, a thrown exception, or the end of the function body.      *)

NoLoc == [data |-> <<>>, course |-> <<>>, priceInfo |-> <<>>, sessionInfo |-> <<>>,
          media |-> <<>>]

Respond(status, body, l) == [do |-> "respond", status |-> status, body |-> body, loc |-> l]
Await(q, at, l) == [do |-> "await", q |-> q, at |-> at, loc |-> l]
Throw(message, l) == [do |-> "throw", message |-> message, loc |-> l]
EndOfBody(l) == [do |-> "end", loc |-> l]
Connect(l) == [do |-> "connect", loc |-> l]

TypeErrorMessage == <<"Cannot read properties of undefined">>

\* mutant of Try: the exception is not caught
TryRethrow(step, id) == step

\* try { ... } catch (e) { return res.json({jsonrpc, id, error: {code: -32603, message}}) }
Try(step, id) ==
    IF step.do = "throw"
    THEN Respond(200, ErrorBody(id, step.message), step.loc)
    ELSE step

\* mutant of Authorized: the scheme of the header is not compared
AuthorizedAnyScheme(h, key) ==
    /\ Truthy(h)
    /\ <<h.v[Len(h.v)]>> = TemplateStr(key)

\* authHeader = req.headers['authorization'] || "";  authHeader === `Bearer ${MCP_API_KEY}`
Authorized(h, key) ==
    (IF Truthy(h) THEN h.v ELSE <<>>) = <<"Bearer ">> \o TemplateStr(key)

\* property access on params.arguments throws for undefined and null
Dereferenceable(a) == a.t \notin {"undefined", "null"}

\* toolName === "recommend_course": up to the careers_map lookup
RecommendCourse(args) ==
    IF ~Dereferenceable(args) THEN Throw(TypeErrorMessage, NoLoc)
    ELSE Await(CareerQuery(args.career), "career", NoLoc)

\* toolName === "get_active_courses": up to the courses lookup
GetActiveCourses == Await(ActiveCoursesQuery, "activeCourses", NoLoc)

\* toolName === "get_course_details": up to the course lookup
GetCourseDetails(args) ==
    IF ~Dereferenceable(args) THEN Throw(TypeErrorMessage, NoLoc)
    ELSE Await(CourseQuery(args.keyword), "course", NoLoc)

\* mutant of CallTool: an unknown tool name falls into the listing handler
CallToolDefaulting(params) ==
    IF params.t = "undefined" THEN Throw(TypeErrorMessage, NoLoc)
    ELSE IF params.name = "recommend_course" THEN RecommendCourse(params.arguments)
    ELSE IF params.name = "get_course_details" THEN GetCourseDetails(params.arguments)
    ELSE GetActiveCourses

\* the tool-name chain of the tools/call branch, after the auth check
CallTool(params) ==
    IF params.t = "undefined" THEN Throw(TypeErrorMessage, NoLoc)
    ELSE IF params.name = "recommend_course" THEN RecommendCourse(params.arguments)
    ELSE IF params.name = "get_active_courses" THEN GetActiveCourses
    ELSE IF params.name = "get_course_details" THEN GetCourseDetails(params.arguments)
    ELSE Respond(404, NotFoundBody, NoLoc)

\* if (method === "tools/call") { ... }
ToolsCall(m, h, key) ==
    IF ~Authorized(h, key) THEN Respond(401, UnauthorizedBody, NoLoc)
    ELSE CallTool(m.params)

\* mutant of Route: the auth check guards every method
RouteAuthFirst(m, h, key) ==
    IF ~Authorized(h, key) THEN Respond(401, UnauthorizedBody, NoLoc)
    ELSE IF m.method = "initialize" THEN Respond(200, InitializeBody(m.id), NoLoc)
    ELSE IF m.method = "notifications/initialized" THEN Respond(200, EmptyBody, NoLoc)
    ELSE IF m.method = "tools/list" THEN Respond(200, ToolsListBody(m.id), NoLoc)
    ELSE IF m.method = "tools/call" THEN CallTool(m.params)
    ELSE EndOfBody(NoLoc)

\* the method chain inside the try block
Route(m, h, key) ==
    IF m.method = "initialize" THEN Respond(200, InitializeBody(m.id), NoLoc)
    ELSE IF m.method = "notifications/initialized" THEN Respond(200, EmptyBody, NoLoc)
    ELSE IF m.method = "tools/list" THEN Respond(200, ToolsListBody(m.id), NoLoc)
    ELSE IF m.method = "tools/call" THEN ToolsCall(m, h, key)
    ELSE EndOfBody(NoLoc)

\* mutant of HandlePost: anything but initialize is refused until an
\* initialize was handled
HandlePostRequiringInit(m, h, key) ==
    IF m.method # "initialize" /\ ~initSeen
    THEN Respond(200, ErrorBody(m.id, <<"Server not initialized">>), NoLoc)
    ELSE Try(Route(m, h, key), m.id)

\* app.post('/mcp', async (req, res) => ...) up to its first await
HandlePost(m, h, key) == Try(Route(m, h, key), m.id)

\* mutant of AfterCareer: data[0] is read without the length check
AfterCareerUnchecked(o, m, l) ==
    Try(IF o.kind = "reject" THEN Throw(FaultMessage, l)
        ELSE IF o.kind = "error" THEN Respond(200, TextResult(m.id, RecommendFallbackText), l)
        ELSE IF o.kind = "nulldata" \/ o.rows = <<>> THEN Throw(TypeErrorMessage, l)
        ELSE Await(CourseNameQuery(o.rows[1].recommended_course_id), "courseName",
                   [l EXCEPT !.data = o.rows]),
        m.id)

\* after `await supabase.from('careers_map')...`
AfterCareer(o, m, l) ==
    Try(IF o.kind = "reject" THEN Throw(FaultMessage, l)
        ELSE IF o.kind = "error" THEN Respond(200, TextResult(m.id, RecommendFallbackText), l)
        ELSE IF o.kind = "nulldata" THEN Throw(TypeErrorMessage, l)
        ELSE IF o.rows = <<>> THEN Respond(200, TextResult(m.id, RecommendFallbackText), l)
        ELSE Await(CourseNameQuery(o.rows[1].recommended_course_id), "courseName",
                   [l EXCEPT !.data = o.rows]),
        m.id)

\* mutant of AfterCourseName: an error of the secondary lookup is thrown
AfterCourseNameStrict(o, m, l) ==
    Try(IF o.kind \in {"reject", "error"} THEN Throw(FaultMessage, l)
        ELSE LET courseName == IF o.kind = "ok" THEN o.rows[1].name
                               ELSE <<l.data[1].recommended_course_id>>
             IN Respond(200, TextResult(m.id, RecommendText(l.data[1].career, courseName)), l),
        m.id)

\* after `await supabase.from('courses').select('name')...single()`
AfterCourseName(o, m, l) ==
    Try(IF o.kind = "reject" THEN Throw(FaultMessage, l)
        ELSE LET courseName == IF o.kind = "ok" THEN o.rows[1].name
                               ELSE <<l.data[1].recommended_course_id>>
             IN Respond(200, TextResult(m.id, RecommendText(l.data[1].career, courseName)), l),
        m.id)

\* mutant of AfterActiveCourses: the first course is dropped from the list
AfterActiveCoursesTail(o, m, l) ==
    Try(IF o.kind = "reject" THEN Throw(FaultMessage, l)
        ELSE IF o.kind = "error" THEN Throw(FaultMessage, l)
        ELSE IF o.kind = "nulldata" THEN Throw(TypeErrorMessage, l)
        ELSE Respond(200,
                     TextResult(m.id, ActiveCoursesText(IF o.rows = <<>> THEN <<>>
                                                        ELSE Tail(o.rows))),
                     [l EXCEPT !.data = o.rows]),
        m.id)

\* after `await supabase.from('courses')...eq('category', 'PAA')`
AfterActiveCourses(o, m, l) ==
    Try(IF o.kind = "reject" THEN Throw(FaultMessage, l)
        ELSE IF o.kind = "error" THEN Throw(FaultMessage, l)
        ELSE IF o.kind = "nulldata" THEN Throw(TypeErrorMessage, l)
        ELSE Respond(200, TextResult(m.id, ActiveCoursesText(o.rows)),
                     [l EXCEPT !.data = o.rows]),
        m.id)

\* mutant of AfterCourse: courses[0].id is read without the length check
AfterCourseUnchecked(o, m, l) ==
    Try(IF o.kind = "reject" THEN Throw(FaultMessage, l)
        ELSE IF o.kind = "error" THEN Respond(200, TextResult(m.id, CourseNotFoundText), l)
        ELSE IF o.kind = "nulldata" \/ o.rows = <<>> THEN Throw(TypeErrorMessage, l)
        ELSE Await(PriceQuery(o.rows[1].id, m.params.arguments.modality), "price",
                   [l EXCEPT !.course = o.rows]),
        m.id)

\* after the course lookup of get_course_details
AfterCourse(o, m, l) ==
    Try(IF o.kind = "reject" THEN Throw(FaultMessage, l)
        ELSE IF o.kind = "error" THEN Respond(200, TextResult(m.id, CourseNotFoundText), l)
        ELSE IF o.kind = "nulldata" THEN Throw(TypeErrorMessage, l)
        ELSE IF o.rows = <<>> THEN Respond(200, TextResult(m.id, CourseNotFoundText), l)
        ELSE Await(PriceQuery(o.rows[1].id, m.params.arguments.modality), "price",
                   [l EXCEPT !.course = o.rows]),
        m.id)

\* mutant of AfterPrice: prices[0] is read without the null/length check
AfterPriceUnchecked(o, m, l) ==
    Try(IF o.kind = "reject" THEN Throw(FaultMessage, l)
        ELSE IF o.kind # "ok" \/ o.rows = <<>> THEN Throw(TypeErrorMessage, l)
        ELSE Await(SessionQuery(l.course[1].id, m.params.arguments.modality), "session",
                   [l EXCEPT !.priceInfo = o.rows]),
        m.id)

\* after the pricing lookup: priceInfo = prices && prices.length > 0 ? prices[0] : null
AfterPrice(o, m, l) ==
    Try(IF o.kind = "reject" THEN Throw(FaultMessage, l)
        ELSE Await(SessionQuery(l.course[1].id, m.params.arguments.modality), "session",
                   [l EXCEPT !.priceInfo = IF o.kind = "ok" THEN o.rows ELSE <<>>]),
        m.id)

\* mutant of AfterSession: the text is sent without waiting for the media lookup
AfterSessionEarly(o, m, l) ==
    Try(IF o.kind = "reject" THEN Throw(FaultMessage, l)
        ELSE LET sessionInfo == IF o.kind = "ok" THEN o.rows ELSE <<>>
             IN Respond(200,
                        TextResult(m.id, DetailsText(l.course[1], l.priceInfo, sessionInfo,
                                                     DefaultImageUrl,
                                                     m.params.arguments.modality)),
                        [l EXCEPT !.sessionInfo = sessionInfo]),
        m.id)

\* after the sessions lookup
AfterSession(o, m, l) ==
    Try(IF o.kind = "reject" THEN Throw(FaultMessage, l)
        ELSE Await(MediaQuery(l.course[1].id), "media",
                   [l EXCEPT !.sessionInfo = IF o.kind = "ok" THEN o.rows ELSE <<>>]),
        m.id)

\* after the course_media lookup: compose and send the text
AfterMedia(o, m, l) ==
    Try(IF o.kind = "reject" THEN Throw(FaultMessage, l)
        ELSE LET media == IF o.kind = "ok" THEN o.rows ELSE <<>>
                 imageUrl == IF media # <<>> THEN media[1].url ELSE DefaultImageUrl
             IN Respond(200,
                        TextResult(m.id, DetailsText(l.course[1], l.priceInfo, l.sessionInfo,
                                                     imageUrl, m.params.arguments.modality)),
                        [l EXCEPT !.media = media]),
        m.id)

-----------------------------------------------------------------------------
(* The streaming variant: GET /sse and the handlers registered with          *)
(* mcpServer.tool.  The McpServer calls a handler with the arguments its     *)
(* schema accepted and answers the tools/call with the handler's return      *)
(* value as the result.                                                      *)

SseUnauthorizedBody == [text |-> "Unauthorized: Invalid API Key"]
StreamBody == [stream |-> "text/event-stream"]

\* apiKey = req.headers['x-api-key'] || req.query.key
SseApiKey(header, query) == IF Truthy(header) THEN header ELSE query

\* mutant of SseConnect: the key is compared only when one was supplied
SseConnectIfSupplied(header, query, key) ==
    IF Truthy(SseApiKey(header, query)) /\ SseApiKey(header, query) # key
    THEN Respond(401, SseUnauthorizedBody, NoLoc)
    ELSE Connect(NoLoc)

\* app.get('/sse'): apiKey !== process.env.MCP_API_KEY rejects, else the
\* transport is created and the server connected to it
SseConnect(header, query, key) ==
    IF SseApiKey(header, query) # key
    THEN Respond(401, SseUnauthorizedBody, NoLoc)
    ELSE Connect(NoLoc)

\* the zod shapes given to mcpServer.tool: {} and {keyword: z.string(), modality: z.string()}
SseSchemaAccepts(name, args) ==
    \/ name = "get_active_courses" /\ args.t \in {"undefined", "object"}
    \/ /\ name = "get_course_details"
       /\ args.t = "object"
       /\ args.keyword.t = "string"
       /\ args.modality.t = "string"

\* the registered handlers, up to their lookup
SseCallTool(params) ==
    IF params.name = "get_active_courses"
    THEN Await(SseActiveCoursesQuery, "sseActiveCourses", NoLoc)
    ELSE Await(SseCourseQuery(params.arguments.keyword, params.arguments.modality),
               "sseCourse", NoLoc)

\* get_active_courses after its lookup
AfterSseActiveCourses(o, m, l) ==
    IF o.kind = "reject" THEN Throw(FaultMessage, l)
    ELSE IF o.kind = "error"
         THEN Respond(200, TextResult(m.id, SseListErrorText(FaultMessage)), l)
    ELSE IF o.kind = "nulldata" THEN Throw(TypeErrorMessage, l)
    ELSE Respond(200, TextResult(m.id, SseActiveCoursesText(o.rows)),
                 [l EXCEPT !.data = o.rows])

\* get_course_details after its lookup
AfterSseCourse(o, m, l) ==
    IF o.kind = "reject" THEN Throw(FaultMessage, l)
    ELSE IF o.kind = "error"
         THEN Respond(200, TextResult(m.id, SseDetailsErrorText(FaultMessage)), l)
    ELSE IF o.kind = "nulldata" \/ o.rows = <<>>
         THEN Respond(200, TextResult(m.id, SseNotFoundText(m.params.arguments.keyword,
                                                            m.params.arguments.modality)), l)
    ELSE Respond(200, TextResult(m.id, SseDetailsText(o.rows[1])),
                 [l EXCEPT !.course = o.rows])

\* the tools/call messages the McpServer hands to a handler
SseCalls ==
    {m \in Messages : /\ m.method = "tools/call"
                      /\ m.params.t = "object"
                      /\ SseSchemaAccepts(m.params.name, m.params.arguments)}

-----------------------------------------------------------------------------
(* State machine *)

NoStream == [open |-> 0, transport |-> FALSE, connected |-> FALSE]

NoResponse == [status |-> 0, body |-> EmptyBody]

\* one invocation of the handler: its request, position, locals and response
IdleSlot ==
    [pc |-> "idle", body |-> NoMessage, auth |-> U, loc |-> NoLoc, calls |-> <<>>,
     returns |-> <<>>, res |-> NoResponse, nres |-> 0, escaped |-> FALSE]

Slots == {1, 2}

Init ==
    /\ variant \in {"stateless", "streaming"}
    /\ sse = NoStream
    /\ env \in {S(Secret), U}
    /\ db \in DbConfigs
    /\ pc = "idle"
    /\ req = NoRequest
    /\ loc = NoLoc
    /\ calls = <<>>
    /\ returns = <<>>
    /\ res = NoResponse
    /\ nres = 0
    /\ escaped = FALSE
    /\ nHandled = 0
    /\ initSeen = FALSE
    /\ conc = [s \in Slots |-> IdleSlot]

\* the effect of a step on the handler's state
Apply(step) ==
    /\ loc' = step.loc
    /\ CASE step.do = "respond" ->
                /\ res' = [status |-> step.status, body |-> step.body]
                /\ nres' = nres + 1
                /\ pc' = "done"
                /\ UNCHANGED <<calls, escaped, sse>>
         [] step.do = "await" ->
                /\ calls' = Append(calls, step.q)
                /\ pc' = step.at
                /\ UNCHANGED <<res, nres, escaped, sse>>
         [] step.do = "throw" ->
                /\ escaped' = TRUE
                /\ pc' = "done"
                /\ UNCHANGED <<calls, res, nres, sse>>
         [] step.do = "end" ->
                /\ pc' = "done"
                /\ UNCHANGED <<calls, res, nres, escaped, sse>>
         [] step.do = "connect" ->
                /\ sse' = [open |-> sse.open + 1, transport |-> TRUE, connected |-> TRUE]
                /\ res' = [status |-> 200, body |-> StreamBody]
                /\ nres' = nres + 1
                /\ pc' = "done"
                /\ UNCHANGED <<calls, escaped>>

\* a request arrives at POST /mcp
Post(m, h) ==
    /\ variant = "stateless"
    /\ pc = "idle"
    /\ nHandled < MaxRequests
    /\ req' = Request("POST /mcp", m, h, U, U)
    /\ Apply(HandlePost(m, h, env))
    /\ UNCHANGED <<conc, variant, env, db, returns, nHandled, initSeen>>

\* a client asks GET /sse for a stream
GetSse(header, query) ==
    /\ variant = "streaming"
    /\ pc = "idle"
    /\ nHandled < MaxRequests
    /\ req' = Request("GET /sse", NoMessage, U, header, query)
    /\ Apply(SseConnect(header, query, env))
    /\ UNCHANGED <<conc, variant, env, db, returns, nHandled, initSeen>>

\* a tools/call arrives on an open stream and the McpServer calls the handler
SseToolCall(m) ==
    /\ variant = "streaming"
    /\ pc = "idle"
    /\ nHandled < MaxRequests
    /\ sse.open > 0
    /\ req' = Request("POST /messages", m, U, U, U)
    /\ Apply(SseCallTool(m.params))
    /\ UNCHANGED <<conc, variant, env, db, returns, nHandled, initSeen>>

LastCall == calls[Len(calls)]

\* an awaited lookup settles with o and the handler runs on to its next await or its end
Settle(o, step) ==
    /\ Apply(step)
    /\ returns' = Append(returns, o)
    /\ db' = Effect(db, LastCall)
    /\ UNCHANGED <<conc, variant, env, req, nHandled, initSeen>>

CareerReturns ==
    /\ pc = "career"
    /\ \E o \in Outcomes(db, LastCall) : Settle(o, AfterCareer(o, req.body, loc))

CourseNameReturns ==
    /\ pc = "courseName"
    /\ \E o \in Outcomes(db, LastCall) : Settle(o, AfterCourseName(o, req.body, loc))

ActiveCoursesReturns ==
    /\ pc = "activeCourses"
    /\ \E o \in Outcomes(db, LastCall) : Settle(o, AfterActiveCourses(o, req.body, loc))

CourseReturns ==
    /\ pc = "course"
    /\ \E o \in Outcomes(db, LastCall) : Settle(o, AfterCourse(o, req.body, loc))

PriceReturns ==
    /\ pc = "price"
    /\ \E o \in Outcomes(db, LastCall) : Settle(o, AfterPrice(o, req.body, loc))

SessionReturns ==
    /\ pc = "session"
    /\ \E o \in Outcomes(db, LastCall) : Settle(o, AfterSession(o, req.body, loc))

MediaReturns ==
    /\ pc = "media"
    /\ \E o \in Outcomes(db, LastCall) : Settle(o, AfterMedia(o, req.body, loc))

SseActiveCoursesReturns ==
    /\ pc = "sseActiveCourses"
    /\ \E o \in Outcomes(db, LastCall) : Settle(o, AfterSseActiveCourses(o, req.body, loc))

SseCourseReturns ==
    /\ pc = "sseCourse"
    /\ \E o \in Outcomes(db, LastCall) : Settle(o, AfterSseCourse(o, req.body, loc))

\* the handler's promise has settled; the server takes the next request
NextRequest ==
    /\ pc = "done"
    /\ pc' = "idle"
    /\ nHandled' = nHandled + 1
    /\ initSeen' = (initSeen \/ req.body.method = "initialize")
    /\ req' = NoRequest
    /\ loc' = NoLoc
    /\ calls' = <<>>
    /\ returns' = <<>>
    /\ res' = NoResponse
    /\ nres' = 0
    /\ escaped' = FALSE
    /\ sse' = [sse EXCEPT !.transport = FALSE, !.connected = FALSE]
    /\ UNCHANGED <<conc, variant, env, db>>

Next ==
    \/ \E m \in Messages, h \in AuthHeaders : Post(m, h)
    \/ CareerReturns
    \/ CourseNameReturns
    \/ ActiveCoursesReturns
    \/ CourseReturns
    \/ PriceReturns
    \/ SessionReturns
    \/ MediaReturns
    \/ \E header \in ApiKeys, query \in ApiKeys : GetSse(header, query)
    \/ \E m \in SseCalls : SseToolCall(m)
    \/ SseActiveCoursesReturns
    \/ SseCourseReturns
    \/ NextRequest

Spec == Init /\ [][Next]_vars

-----------------------------------------------------------------------------
(* Overlapping requests: Express starts the handler for each request as it  *)
(* arrives, and an invocation gives way to the others at each await         *)

\* the requests that overlap
ConcMessages ==
    {[method |-> "initialize", id |-> "1", params |-> NoParams],
     [method |-> "tools/list", id |-> "2", params |-> NoParams],
     [method |-> "tools/call", id |-> "1",
      params |-> [t |-> "object", name |-> "get_active_courses",
                  arguments |-> Args("undefined", U, U, U)]],
     [method |-> "tools/call", id |-> "2",
      params |-> [t |-> "object", name |-> "get_course_details",
                  arguments |-> Args("object", S(<<"i", "n">>), U, U)]],
     [method |-> "tools/call", id |-> "1",
      params |-> [t |-> "object", name |-> "recommend_course",
                  arguments |-> Args("object", U, U, S(<<"m", "e">>))]]}

ConcHeaders == {S(<<"Bearer ", "s3cret">>), U}

\* the effect of a step on the invocation it belongs to
SlotAfter(c, step) ==
    CASE step.do = "respond" ->
            [c EXCEPT !.loc = step.loc,
                      !.res = [status |-> step.status, body |-> step.body],
                      !.nres = @ + 1,
                      !.pc = "done"]
      [] step.do = "await" ->
            [c EXCEPT !.loc = step.loc, !.calls = Append(@, step.q), !.pc = step.at]
      [] step.do = "throw" ->
            [c EXCEPT !.loc = step.loc, !.escaped = TRUE, !.pc = "done"]
      [] step.do = "end" ->
            [c EXCEPT !.loc = step.loc, !.pc = "done"]

\* the code after the await at which the invocation waits
AfterLookup(at, o, m, l) ==
    CASE at = "career" -> AfterCareer(o, m, l)
      [] at = "courseName" -> AfterCourseName(o, m, l)
      [] at = "activeCourses" -> AfterActiveCourses(o, m, l)
      [] at = "course" -> AfterCourse(o, m, l)
      [] at = "price" -> AfterPrice(o, m, l)
      [] at = "session" -> AfterSession(o, m, l)
      [] at = "media" -> AfterMedia(o, m, l)

ConcInit ==
    /\ variant = "stateless"
    /\ sse = NoStream
    /\ env = S(Secret)
    /\ db = FullDb
    /\ pc = "idle"
    /\ req = NoRequest
    /\ loc = NoLoc
    /\ calls = <<>>
    /\ returns = <<>>
    /\ res = NoResponse
    /\ nres = 0
    /\ escaped = FALSE
    /\ nHandled = 0
    /\ initSeen = FALSE
    /\ conc = [s \in Slots |-> IdleSlot]

\* a request arrives and its handler runs to its first await or to its end
ConcPost(s, m, h) ==
    /\ conc[s].pc = "idle"
    /\ nHandled < MaxArrivals
    /\ conc' = [conc EXCEPT ![s] = SlotAfter([IdleSlot EXCEPT !.body = m, !.auth = h],
                                             HandlePost(m, h, env))]
    /\ nHandled' = nHandled + 1
    /\ UNCHANGED <<variant, sse, env, db, pc, req, loc, calls, returns, res, nres,
                   escaped, initSeen>>

\* the lookup an invocation awaits settles and that invocation runs on
ConcReturns(s) ==
    /\ conc[s].pc \notin {"idle", "done"}
    /\ LET c == conc[s]
           q == c.calls[Len(c.calls)]
       IN  /\ \E o \in Outcomes(db, q) :
                 conc' = [conc EXCEPT ![s] =
                             SlotAfter([c EXCEPT !.returns = Append(c.returns, o)],
                                       AfterLookup(c.pc, o, c.body, c.loc))]
           /\ db' = Effect(db, q)
    /\ UNCHANGED <<variant, sse, env, pc, req, loc, calls, returns, res, nres,
                   escaped, nHandled, initSeen>>

\* the response was sent; the invocation is over
ConcRelease(s) ==
    /\ conc[s].pc = "done"
    /\ conc' = [conc EXCEPT ![s] = IdleSlot]
    /\ initSeen' = (initSeen \/ conc[s].body.method = "initialize")
    /\ UNCHANGED <<variant, sse, env, db, pc, req, loc, calls, returns, res, nres,
                   escaped, nHandled>>

ConcNext ==
    \/ \E s \in Slots, m \in ConcMessages, h \in ConcHeaders : ConcPost(s, m, h)
    \/ \E s \in Slots : ConcReturns(s)
    \/ \E s \in Slots : ConcRelease(s)

ConcSpec == ConcInit /\ [][ConcNext]_vars

-----------------------------------------------------------------------------
(* Vocabulary of the properties *)

Done == pc = "done"
InFlight == pc # "idle"
Msg == req.body
CallArgs == req.body.params.arguments

\* the Authorization header is exactly 'Bearer <configured secret>'
BearerOk ==
    /\ env.t = "string"
    /\ req.auth.t = "string"
    /\ req.auth.v = <<"Bearer ">> \o env.v

Stateless == req.route = "POST /mcp"
AuthorisedCall == InFlight /\ Stateless /\ Msg.method = "tools/call" /\ BearerOk
\* a tools/call handled on an open stream of the streaming variant
StreamCall(name) == InFlight /\ req.route = "POST /messages" /\ Msg.params.name = name
AuthorisedTool(name) ==
    AuthorisedCall /\ Msg.params.t = "object" /\ Msg.params.name = name

IsResultEnvelope(b) ==
    /\ DOMAIN b \in {{"jsonrpc", "id", "result"}, {"jsonrpc", "result"}}
    /\ b.jsonrpc = "2.0"
IsErrorEnvelope(b) ==
    /\ DOMAIN b \in {{"jsonrpc", "id", "error"}, {"jsonrpc", "error"}}
    /\ b.jsonrpc = "2.0"
    /\ DOMAIN b.error = {"code", "message"}
EchoesId(b) ==
    IF Msg.id = Undefined THEN "id" \notin DOMAIN b ELSE b.id = Msg.id
IsTextResult(b) ==
    /\ IsResultEnvelope(b)
    /\ DOMAIN b.result = {"content"}
    /\ Len(b.result.content) = 1
    /\ b.result.content[1].type = "text"
TextOf(b) == b.result.content[1].text

CatalogNames == {Catalog[i].name : i \in 1..Len(Catalog)}
KnownMethods == {"initialize", "notifications/initialized", "tools/list", "tools/call"}

\* the i-th lookup of the request was a lookup of kind k and was answered kind a
Answered(i, k, a) ==
    /\ Len(returns) >= i
    /\ calls[i].kind = k
    /\ returns[i].kind = a

\* fields of the get_course_details text
DatesOf(text) == text[8]
ListPriceOf(text) == text[12]
PromoPriceOf(text) == text[14]
ValidUntilOf(text) == text[16]
ReserveOf(text) == text[18]
ScheduleOf(text) == text[20]
ImageOf(text) == text[23]

-----------------------------------------------------------------------------
(* C1 *)

\* C1: a tools/call whose Authorization header is not exactly
\* 'Bearer <configured secret>' (absent, empty, wrong secret, wrong scheme) is
\* answered 401 Unauthorized, whatever its params, and no repository lookup is
\* issued at any point while it is handled.
C1_UnauthorizedShortCircuits ==
    (InFlight /\ Stateless /\ Msg.method = "tools/call" /\ env.t = "string" /\ ~BearerOk) =>
        /\ Done
        /\ res = [status |-> 401, body |-> UnauthorizedBody]
        /\ nres = 1
        /\ calls = <<>>

C1_Witness ==
    /\ Done
    /\ env = S(Secret)
    /\ req.auth = S(<<"Basic ", "s3cret">>)
    /\ Msg.method = "tools/call"
    /\ Msg.params.name = "get_course_details"
    /\ CallArgs.keyword = S(<<"i", "n">>)
    /\ res.status = 401

-----------------------------------------------------------------------------
(* C2 *)

\* C2: when the course lookup of an authorised get_course_details returned a
\* course and the pricing, session and media lookups each returned a row or no
\* row, the response is a successful text result; the pricing fields carry the
\* pricing row's values or '---' / 'agotar existencias', the session fields the
\* session row's values or 'Por confirmar' / 'Consultar en web', the image the
\* media row's url or the default url, each independently of the other two.
C2_DetailsDegradeIndependently ==
    (/\ Done
     /\ AuthorisedTool("get_course_details")
     /\ Len(returns) >= 1
     /\ \A i \in 1..Len(returns) : returns[i].kind = "ok"
     /\ returns[1].rows # <<>>) =>
        /\ Len(returns) = 4
        /\ res.status = 200
        /\ nres = 1
        /\ IsTextResult(res.body)
        /\ EchoesId(res.body)
        /\ LET text == TextOf(res.body)
               prices == returns[2].rows
               sessions == returns[3].rows
               media == returns[4].rows
           IN  /\ Len(text) = 23
               /\ text[2] = returns[1].rows[1].name
               /\ IF prices = <<>>
                  THEN /\ ListPriceOf(text) = <<"---">>
                       /\ PromoPriceOf(text) = <<"---">>
                       /\ ReserveOf(text) = <<"---">>
                       /\ ValidUntilOf(text) = <<"agotar existencias">>
                  ELSE /\ ListPriceOf(text) = prices[1].list_price
                       /\ PromoPriceOf(text) = prices[1].promo_price
                       /\ ReserveOf(text) = prices[1].reserve_amount
                       /\ ValidUntilOf(text) = prices[1].valid_until
               /\ IF sessions = <<>>
                  THEN /\ DatesOf(text) = <<"Por confirmar">>
                       /\ ScheduleOf(text) = <<"Consultar en web">>
                  ELSE /\ DatesOf(text) = sessions[1].start_date \o <<" al ">>
                                            \o sessions[1].end_date
                       /\ ScheduleOf(text) = sessions[1].schedule_label
               /\ IF media = <<>>
                  THEN ImageOf(text) = <<"https://unx.mx">>
                  ELSE ImageOf(text) = media[1].url

\* a pricing row, no session row and no media row
C2_Witness ==
    /\ Done
    /\ AuthorisedTool("get_course_details")
    /\ Len(returns) = 4
    /\ \A i \in 1..4 : returns[i].kind = "ok"
    /\ returns[1].rows # <<>>
    /\ returns[2].rows # <<>>
    /\ returns[3].rows = <<>>
    /\ returns[4].rows = <<>>
    /\ res.status = 200

\* the other seven combinations of row / no row
C2_Combination(p, s, i) ==
    /\ Done
    /\ AuthorisedTool("get_course_details")
    /\ Len(returns) = 4
    /\ \A k \in 1..4 : returns[k].kind = "ok"
    /\ returns[1].rows # <<>>
    /\ (returns[2].rows # <<>>) = p
    /\ (returns[3].rows # <<>>) = s
    /\ (returns[4].rows # <<>>) = i

-----------------------------------------------------------------------------
(* C3 *)

\* C3: whenever a lookup issued by a tool reported a backing-store fault (the
\* client returned a non-null error), the tools/call is answered with a JSON-RPC
\* error object, not with a successful result carrying fallback text.
C3_FaultYieldsError ==
    (/\ Done
     /\ AuthorisedCall \/ req.route = "POST /messages"
     /\ \E i \in 1..Len(returns) : returns[i].kind = "error") =>
        IsErrorEnvelope(res.body)

-----------------------------------------------------------------------------
(* C4 *)

\* C4: an authorised get_course_details whose course lookup returned an empty
\* list is answered 200 with the result envelope carrying the not-found text,
\* and no pricing, session or media lookup is issued; the handler of the
\* streaming variant likewise returns its not-found text as a result.
C4_CourseNotFoundIsResult ==
    /\ (/\ InFlight
        /\ AuthorisedTool("get_course_details")
        /\ Len(returns) >= 1
        /\ returns[1] = Ok(<<>>)) =>
            /\ Done
            /\ res.status = 200
            /\ nres = 1
            /\ IsTextResult(res.body)
            /\ EchoesId(res.body)
            /\ TextOf(res.body) = << <<"No encontre ese curso activo.">> >>
            /\ Len(calls) = 1
            /\ calls[1].table = "courses"
    /\ (/\ InFlight
        /\ StreamCall("get_course_details")
        /\ Len(returns) >= 1
        /\ returns[1] = Ok(<<>>)) =>
            /\ Done
            /\ ~escaped
            /\ nres = 1
            /\ IsTextResult(res.body)
            /\ TextOf(res.body) =
                  << <<"No encontre informacion activa para el curso '">>,
                     CallArgs.keyword.v, <<"' en modalidad '">>, CallArgs.modality.v,
                     <<"'. Por favor verifica el nombre o la modalidad.">> >>
            /\ Len(calls) = 1
            /\ calls[1].table = "courses"

C4_Witness ==
    /\ Done
    /\ db = FullDb
    /\ AuthorisedTool("get_course_details")
    /\ CallArgs.keyword = S(<<"q">>)
    /\ returns = <<Ok(<<>>)>>
    /\ res.status = 200

\* the same case in the streaming variant: the keyword matches, the modality does not
C4_StreamingCase ==
    /\ Done
    /\ db = FullDb
    /\ StreamCall("get_course_details")
    /\ CallArgs.keyword = S(<<"i", "n">>)
    /\ CallArgs.modality = S(<<"p", "r">>)
    /\ returns = <<Ok(<<>>)>>

-----------------------------------------------------------------------------
(* C5 *)

\* C5: an authorised recommend_course whose careers_map lookup returned no row
\* is answered 200 with a result whose text is the fixed Integral
\* recommendation, the same for every career, and the course-name lookup is
\* not issued.
C5_RecommendFallback ==
    (/\ InFlight
     /\ AuthorisedTool("recommend_course")
     /\ Len(returns) >= 1
     /\ returns[1] = Ok(<<>>)) =>
        /\ Done
        /\ res.status = 200
        /\ nres = 1
        /\ IsTextResult(res.body)
        /\ EchoesId(res.body)
        /\ TextOf(res.body) =
              << <<"No encontre una recomendacion especifica, pero el curso Integral suele ser la mejor opcion general.">> >>
        /\ Len(calls) = 1
        /\ calls[1].table = "careers_map"

C5_Witness ==
    /\ Done
    /\ db = FullDb
    /\ AuthorisedTool("recommend_course")
    /\ CallArgs.career = S(<<"z">>)
    /\ returns = <<Ok(<<>>)>>
    /\ TextOf(res.body) = RecommendFallbackText

-----------------------------------------------------------------------------
(* C6 *)

\* C6: when the handler of a message has run to its end, exactly one response
\* has been sent for the message: never none, never two.
C6_ExactlyOneResponse ==
    /\ nres <= 1
    /\ (Done /\ Stateless) => nres = 1

-----------------------------------------------------------------------------
(* C7 *)

\* C7: a message whose method is none of initialize,
\* notifications/initialized, tools/list, tools/call is answered with HTTP 404,
\* and no repository lookup is issued for it.
C7_UnknownMethodNotFound ==
    (Done /\ Stateless /\ Msg.method \notin KnownMethods) =>
        /\ res.status = 404
        /\ nres = 1
        /\ calls = <<>>

-----------------------------------------------------------------------------
(* C8 *)

\* an exception was raised while the authorised tools/call was handled
Raised ==
    \/ Msg.params.t = "undefined"
    \/ /\ Msg.params.name \in {"recommend_course", "get_course_details"}
       /\ CallArgs.t \in {"undefined", "null"}
    \/ \E i \in 1..Len(returns) :
          \/ returns[i].kind = "reject"
          \/ returns[i].kind = "nulldata" /\ calls[i].kind \in {"career", "activeCourses", "course"}
          \/ returns[i].kind = "error" /\ calls[i].kind = "activeCourses"

\* C8: no exception leaves the request handler, and an authorised tools/call
\* during which an exception was raised (a rejected lookup, absent params,
\* absent or null arguments, a null data result that is dereferenced) is
\* answered with the JSON-RPC error envelope carrying the request id and code
\* -32603.
C8_ExceptionsCaught ==
    /\ Stateless => ~escaped
    /\ (Done /\ AuthorisedCall /\ Raised) =>
            /\ res.status = 200
            /\ nres = 1
            /\ IsErrorEnvelope(res.body)
            /\ EchoesId(res.body)
            /\ res.body.error.code = -32603

C8_Witness ==
    /\ Done
    /\ AuthorisedTool("get_course_details")
    /\ Msg.id = "2"
    /\ Len(returns) = 4
    /\ returns[4].kind = "reject"
    /\ res.body.error.code = -32603

-----------------------------------------------------------------------------
(* C9 *)

\* the first lookup of the call found no row
DataNotFound ==
    /\ AuthorisedCall
    /\ Len(returns) >= 1
    /\ returns[1] = Ok(<<>>)
    /\ calls[1].kind \in {"career", "course"}

\* C9: an authorised tools/call whose params.name is not a catalog name is
\* answered HTTP 404 'Method not found' with no repository lookup, while every
\* data-not-found response is an HTTP 200 result envelope, so the two differ.
C9_UnknownToolIsShapeFault ==
    /\ (/\ Done
        /\ AuthorisedCall
        /\ Msg.params.t = "object"
        /\ Msg.params.name \notin CatalogNames) =>
            /\ res = [status |-> 404, body |-> [error |-> "Method not found"]]
            /\ nres = 1
            /\ calls = <<>>
    /\ (Done /\ DataNotFound) =>
            /\ res.status = 200
            /\ IsTextResult(res.body)

C9_Witness ==
    /\ Done
    /\ AuthorisedCall
    /\ Msg.params.name = "delete_course"
    /\ CallArgs.t = "object"
    /\ res.status = 404

-----------------------------------------------------------------------------
(* C10 *)

\* C10: every initialize request, whatever its Authorization header and
\* whatever was handled before it, is answered 200 with the envelope echoing
\* its id and carrying protocolVersion '2024-11-05', capabilities
\* {tools: {listChanged: false}} and the server's name and version, and no
\* repository lookup is issued.
C10_InitializeFixed ==
    (InFlight /\ Stateless /\ Msg.method = "initialize") =>
        /\ Done
        /\ res.status = 200
        /\ nres = 1
        /\ IsResultEnvelope(res.body)
        /\ EchoesId(res.body)
        /\ res.body.result =
              [protocolVersion |-> "2024-11-05",
               capabilities |-> [tools |-> [listChanged |-> FALSE]],
               serverInfo |-> [name |-> "unx_mcp_advanced", version |-> "2.0.0"]]
        /\ calls = <<>>

\* an initialize without credential, after another initialize was handled
C10_Witness ==
    /\ Done
    /\ Msg.method = "initialize"
    /\ req.auth = U
    /\ env = S(Secret)
    /\ initSeen
    /\ nHandled = 1
    /\ res.status = 200

-----------------------------------------------------------------------------
(* C11 *)

\* C11: every tools/list request, whatever its Authorization header and
\* whatever was handled before it, is answered 200 with the result envelope
\* carrying the same three tools get_active_courses, get_course_details,
\* recommend_course with the same descriptions and schemas, and no repository
\* lookup is issued.
C11_ToolsListStatic ==
    (InFlight /\ Stateless /\ Msg.method = "tools/list") =>
        /\ Done
        /\ res.status = 200
        /\ nres = 1
        /\ IsResultEnvelope(res.body)
        /\ EchoesId(res.body)
        /\ DOMAIN res.body.result = {"tools"}
        /\ LET tools == res.body.result.tools
           IN  /\ Len(tools) = 3
               /\ tools[1] =
                    [name |-> "get_active_courses",
                     description |-> "Lista los cursos PAA activos. Usala para dar info general.",
                     inputSchema |-> [type |-> "object", properties |-> {}, required |-> {}]]
               /\ tools[2] =
                    [name |-> "get_course_details",
                     description |-> "Obtiene precio, horarios, fechas e imagen de un curso especifico.",
                     inputSchema |->
                        [type |-> "object",
                         properties |-> {[name |-> "keyword", type |-> "string"],
                                         [name |-> "modality", type |-> "string"]},
                         required |-> {"keyword"}]]
               /\ tools[3] =
                    [name |-> "recommend_course",
                     description |-> "Recomienda un curso basado en la carrera o universidad.",
                     inputSchema |->
                        [type |-> "object",
                         properties |-> {[name |-> "career", type |-> "string"]},
                         required |-> {"career"}]]
        /\ calls = <<>>

\* a tools/list with a wrong credential, after another request was handled
C11_Witness ==
    /\ Done
    /\ Msg.method = "tools/list"
    /\ req.auth = S(<<"Bearer ", "wrong">>)
    /\ env = S(Secret)
    /\ nHandled = 1
    /\ res.status = 200

-----------------------------------------------------------------------------
(* C13 *)

\* C13: in both variants every repository operation a request issues is a
\* select, and no step of any request changes the contents of the courses,
\* pricing, sessions, course_media and careers_map relations.
C13_RepositoryNeverWritten ==
    [][/\ db' = db
       /\ \A i \in 1..Len(calls') : calls'[i].op = "select"]_vars

\* all four lookups of a get_course_details have been answered
C13_Witness ==
    /\ Done
    /\ db = FullDb
    /\ AuthorisedTool("get_course_details")
    /\ Len(returns) = 4
    /\ returns[4].kind = "ok"
    /\ returns[4].rows # <<>>

\* the same for a lookup of the streaming variant
C13_StreamingCase ==
    /\ Done
    /\ db = FullDb
    /\ StreamCall("get_active_courses")
    /\ Len(returns) = 1
    /\ returns[1].kind = "ok"

-----------------------------------------------------------------------------
(* C15 *)

\* the key a GET /sse supplies: the x-api-key header, else the 'key' parameter
SuppliedKey ==
    IF req.xApiKey.t = "string" /\ req.xApiKey.v # <<>> THEN req.xApiKey ELSE req.key

\* C15: a GET /sse whose supplied key is not equal to the configured secret is
\* answered 401; no transport is created for it, the protocol handler is not
\* connected, no stream is opened and no lookup is issued.
C15_SseRejectedBeforeProtocol ==
    (InFlight /\ req.route = "GET /sse" /\ SuppliedKey # env) =>
        /\ Done
        /\ res = [status |-> 401, body |-> [text |-> "Unauthorized: Invalid API Key"]]
        /\ nres = 1
        /\ ~sse.transport
        /\ ~sse.connected
        /\ sse.open = 0 => ~(\E m \in SseCalls : ENABLED SseToolCall(m))
        /\ calls = <<>>

\* no key at all against a configured secret, no stream open
C15_Witness ==
    /\ Done
    /\ req.route = "GET /sse"
    /\ env = S(Secret)
    /\ req.xApiKey = U
    /\ req.key = U
    /\ sse.open = 0
    /\ res.status = 401

-----------------------------------------------------------------------------
(* C16 *)

DependentKinds == {"price", "session", "media"}

\* C16: in get_course_details a pricing, session or media lookup is issued
\* only after the course lookup returned a course and is scoped by that
\* course's id; lookups are awaited one at a time; the composed text is sent
\* only after all three dependent lookups returned, and no response is sent
\* while a lookup is outstanding.
C16_DetailsLookupsOrdered ==
    (InFlight /\ AuthorisedTool("get_course_details")) =>
        /\ Len(returns) <= Len(calls)
        /\ Len(calls) <= Len(returns) + 1
        /\ \A i \in 1..Len(calls) :
              calls[i].kind \in DependentKinds =>
                  /\ i > 1
                  /\ calls[1].kind = "course"
                  /\ returns[1].kind = "ok"
                  /\ returns[1].rows # <<>>
                  /\ calls[i].course_id = returns[1].rows[1].id
        /\ nres = 1 => Len(calls) = Len(returns)
        /\ (/\ Done
            /\ Len(returns) >= 1
            /\ \A i \in 1..Len(returns) : returns[i].kind = "ok"
            /\ returns[1].rows # <<>>) =>
                /\ nres = 1
                /\ [i \in 1..Len(calls) |-> calls[i].kind] =
                      <<"course", "price", "session", "media">>
                /\ Len(returns) = 4

C16_Witness ==
    /\ Done
    /\ AuthorisedTool("get_course_details")
    /\ Len(returns) = 4
    /\ \A i \in 1..4 : returns[i].kind = "ok"
    /\ returns[1].rows # <<>>
    /\ returns[1].rows[1].id = "c3"
    /\ calls[4].course_id = "c3"
    /\ nres = 1

-----------------------------------------------------------------------------
(* C17 *)

CurrentRows(rel) == {r \in rel : r.calendar = "2026B"}

\* C17: every pricing and every session lookup carries the filter
\* calendar = '2026B' and is answered with rows of that calendar only, so the
\* prices and the schedule of a get_course_details text are those of a
\* current-calendar row or the placeholders, also when the relation holds
\* stale rows for the course; the media lookup carries no calendar filter.
C17_CurrentCalendarOnly ==
    /\ \A i \in 1..Len(calls) :
          /\ calls[i].table \in {"pricing", "sessions"} =>
                /\ calls[i].calendar = "2026B"
                /\ i <= Len(returns) =>
                      \A k \in 1..Len(returns[i].rows) :
                          returns[i].rows[k].calendar = "2026B"
          /\ calls[i].table = "course_media" => calls[i].calendar = ""
    /\ (/\ Done
        /\ AuthorisedTool("get_course_details")
        /\ Len(returns) = 4
        /\ res.status = 200
        /\ IsTextResult(res.body)) =>
            LET text == TextOf(res.body)
                course == returns[1].rows[1].id
                prices == {r \in CurrentRows(db.pricing) : r.course_id = course}
                sessions == {r \in CurrentRows(db.sessions) : r.course_id = course}
            IN  /\ ListPriceOf(text) \in {r.list_price : r \in prices} \cup {<<"---">>}
                /\ PromoPriceOf(text) \in {r.promo_price : r \in prices} \cup {<<"---">>}
                /\ ScheduleOf(text) \in
                      {r.schedule_label : r \in sessions} \cup {<<"Consultar en web">>}

\* course c1 has a current and a stale pricing row; the current one is shown
C17_Witness ==
    /\ Done
    /\ db = FullDb
    /\ AuthorisedTool("get_course_details")
    /\ Len(returns) = 4
    /\ returns[1].rows # <<>>
    /\ returns[1].rows[1].id = "c1"
    /\ returns[2].rows # <<>>
    /\ IsTextResult(res.body)
    /\ ListPriceOf(TextOf(res.body)) = <<"2000">>

\* course c2 has only stale rows: placeholders are shown
C17_StaleOnlyCase ==
    /\ Done
    /\ db = FullDb
    /\ AuthorisedTool("get_course_details")
    /\ Len(returns) = 4
    /\ returns[1].rows # <<>>
    /\ returns[1].rows[1].id = "c2"
    /\ returns[2] = Ok(<<>>)
    /\ IsTextResult(res.body)
    /\ ListPriceOf(TextOf(res.body)) = <<"---">>

-----------------------------------------------------------------------------
(* C18 *)

\* an authorised recommend_course whose career matched a recommendation row
RecommendMatched ==
    /\ AuthorisedTool("recommend_course")
    /\ Len(returns) >= 1
    /\ returns[1].kind = "ok"
    /\ returns[1].rows # <<>>

\* the result text names the course by its display name or by the raw id
RecommendsByNameOrId ==
    /\ Len(returns) = 2
    /\ res.status = 200
    /\ nres = 1
    /\ IsTextResult(res.body)
    /\ EchoesId(res.body)
    /\ Len(TextOf(res.body)) = 5
    /\ TextOf(res.body)[2] = returns[1].rows[1].career
    /\ TextOf(res.body)[4] =
          IF returns[2].kind = "ok" /\ returns[2].rows # <<>>
          THEN returns[2].rows[1].name
          ELSE <<returns[1].rows[1].recommended_course_id>>

C18_NameCase ==
    /\ Done
    /\ RecommendMatched
    /\ Len(returns) = 2
    /\ returns[2].kind = "ok"
    /\ IsTextResult(res.body)
    /\ TextOf(res.body)[4] = <<"I", "n", "t">>

-----------------------------------------------------------------------------
(* C19 *)

\* lines of `width` fragments joined by "\n" after a one-fragment header
LinesOf(text, width) ==
    IF Len(text) = 1 THEN 0 ELSE (Len(text) - 1 + 1) \div (width + 1)

\* the text is the header followed by one line per row, in the rows' order
RendersRows(text, rows, header, marker, width) ==
    /\ text[1] = header
    /\ Len(text) = 1 + (IF rows = <<>> THEN 0 ELSE Len(rows) * (width + 1) - 1)
    /\ LinesOf(text, width) = Len(rows)
    /\ Cardinality({i \in 2..Len(text) : text[i] = marker}) = Len(rows)
    /\ \A k \in 1..Len(rows) :
          /\ text[1 + (k - 1) * (width + 1) + 1] = marker
          /\ text[1 + (k - 1) * (width + 1) + 2] = rows[k].name

\* C19: a get_active_courses call whose lookup returns the rows r1..rn
\* (n >= 0) is answered by a successful result whose text is the header line
\* followed by exactly n course lines, one per returned course; for n = 0
\* the text is the header alone and the answer is not an error. This holds
\* for the authorised call of the stateless dispatcher and for the call on
\* an open stream.
C19_ActiveCoursesOneLineEach ==
    /\ (AuthorisedTool("get_active_courses") /\ Len(returns) = 1
        /\ returns[1].kind = "ok") =>
            /\ Done
            /\ res.status = 200
            /\ nres = 1
            /\ IsTextResult(res.body)
            /\ RendersRows(TextOf(res.body), returns[1].rows,
                           <<"Cursos PAA Disponibles:\n">>, <<"* ">>, 5)
    /\ (StreamCall("get_active_courses") /\ Len(returns) = 1
        /\ returns[1].kind = "ok") =>
            /\ Done
            /\ IsTextResult(res.body)
            /\ RendersRows(TextOf(res.body), returns[1].rows,
                           <<"Cursos disponibles actualmente:\n">>, <<"- ">>, 10)

\* the empty result set: the header line alone
C19_Witness ==
    /\ Done
    /\ AuthorisedTool("get_active_courses")
    /\ returns = <<Ok(<<>>)>>
    /\ IsTextResult(res.body)
    /\ TextOf(res.body) = << <<"Cursos PAA Disponibles:\n">> >>

\* two active courses: two lines
C19_TwoCoursesCase ==
    /\ Done
    /\ AuthorisedTool("get_active_courses")
    /\ Len(returns) = 1
    /\ Len(returns[1].rows) = 2
    /\ IsTextResult(res.body)
    /\ Len(TextOf(res.body)) = 12

C19_StreamingEmptyCase ==
    /\ Done
    /\ StreamCall("get_active_courses")
    /\ returns = <<Ok(<<>>)>>
    /\ IsTextResult(res.body)
    /\ Len(TextOf(res.body)) = 1

-----------------------------------------------------------------------------
(* C20 *)

NoBearer == req.auth = U
NoSseKey == req.xApiKey = U /\ req.key = U
SecretUnset == env = U

Rejected401 == Done /\ res.status = 401 /\ nres = 1 /\ calls = <<>>

\* C20: a request without any credential (no Authorization header on
\* tools/call; neither x-api-key nor 'key' on GET /sse) is answered 401 and
\* starts nothing, whatever the secret is, also when MCP_API_KEY is unset;
\* and while the secret is unset every tools/call and every GET /sse is
\* answered 401.
C20_NoCredentialNeverAuthorised ==
    /\ (InFlight /\ Stateless /\ Msg.method = "tools/call" /\ (NoBearer \/ SecretUnset)) =>
            Rejected401
    /\ (InFlight /\ req.route = "GET /sse" /\ (NoSseKey \/ SecretUnset)) =>
            /\ Rejected401
            /\ ~sse.transport
            /\ ~sse.connected

\* what does hold: with a configured secret no credential is never authorised,
\* and a tools/call without an Authorization header is rejected also when the
\* secret is unset
C20_HoldsWhenConfigured ==
    /\ (InFlight /\ Stateless /\ Msg.method = "tools/call" /\ NoBearer) => Rejected401
    /\ (InFlight /\ req.route = "GET /sse" /\ NoSseKey /\ ~SecretUnset) =>
            Rejected401 /\ ~sse.connected

\* the failing cases
C20_SseOpenedWithoutKey ==
    Done /\ req.route = "GET /sse" /\ NoSseKey /\ SecretUnset /\ sse.connected
C20_BearerUndefinedAccepted ==
    /\ InFlight /\ Stateless /\ Msg.method = "tools/call" /\ SecretUnset
    /\ req.auth = S(<<"Bearer ", "undefined">>)
    /\ calls # <<>>

-----------------------------------------------------------------------------
(* C14 *)

\* the handler took the arguments as a well-formed call: it did not fault
\* before its first lookup, and that lookup's pattern is not the text of an
\* undefined value
HandlerAccepted ==
    /\ calls # <<>>
    /\ calls[1].pattern # TemplateStr(U)

\* the argument objects of the comparison: absent, or an object whose
\* declared properties are absent, strings or non-strings
ComparedArgs(p) ==
    /\ p.t = "object"
    /\ p.name \in CatalogNames
    /\ p.arguments.t \in {"undefined", "object"}

\* C14: for each catalog tool and each such argument object, the announced
\* inputSchema accepts the arguments exactly when the tools/call handler
\* takes them as a well-formed call; and the handlers of the streaming
\* variant are called for exactly the arguments the announced schema
\* accepts (keyword required, modality optional).
C14_NoSchemaDrift ==
    /\ (AuthorisedCall /\ ComparedArgs(Msg.params)) =>
            (SchemaAccepts(AnnouncedSchema(Msg.params.name), CallArgs) <=> HandlerAccepted)
    /\ (variant = "streaming" /\ sse.open > 0) =>
            \A m \in Messages :
                (/\ m.method = "tools/call"
                 /\ ComparedArgs(m.params)
                 /\ m.params.name \in {"get_active_courses", "get_course_details"}) =>
                    (SchemaAccepts(AnnouncedSchema(m.params.name), m.params.arguments)
                        <=> m \in SseCalls)

\* what does hold in the stateless dispatcher: whatever the announced schema
\* accepts the handler accepts, and required properties are required by both
C14_SchemaAcceptedIsHandled ==
    (AuthorisedCall /\ ComparedArgs(Msg.params)) =>
        /\ SchemaAccepts(AnnouncedSchema(Msg.params.name), CallArgs) => HandlerAccepted
        /\ (\E p \in AnnouncedSchema(Msg.params.name).required :
                CallArgs.t = "undefined" \/ ArgProp(CallArgs, p) = U) => ~HandlerAccepted

\* the failing cases
C14_NonStringKeywordSearched ==
    /\ AuthorisedTool("get_course_details")
    /\ CallArgs.keyword = NonString
    /\ ~SchemaAccepts(AnnouncedSchema("get_course_details"), CallArgs)
    /\ calls # <<>>
    /\ calls[1].pattern = <<"5">>
C14_StreamingNeedsModality ==
    /\ variant = "streaming"
    /\ pc = "idle"
    /\ sse.open > 0
    /\ \E m \in Messages :
          /\ m.method = "tools/call"
          /\ m.params.t = "object"
          /\ m.params.name = "get_course_details"
          /\ m.params.arguments = Args("object", S(<<"i", "n">>), U, U)
          /\ SchemaAccepts(AnnouncedSchema("get_course_details"), m.params.arguments)
          /\ m \notin SseCalls

-----------------------------------------------------------------------------
(* C12 *)

\* the invocation as it arrived
Arrived(c) == [IdleSlot EXCEPT !.body = c.body, !.auth = c.auth]

\* the request handled alone: the handler run from the arrival of the request
\* on, its lookups answered by outs in order, nothing else running
RECURSIVE RunAlone(_, _, _)
RunAlone(c, step, outs) ==
    IF step.do = "await" /\ outs # <<>>
    THEN LET w == SlotAfter(c, step)
         IN  RunAlone([w EXCEPT !.returns = Append(w.returns, Head(outs))],
                      AfterLookup(step.at, Head(outs), c.body, step.loc),
                      Tail(outs))
    ELSE SlotAfter(c, step)

\* the invocation is where the request handled alone would be, given the
\* same answers of the repository
AsAlone(c) ==
    /\ c = RunAlone(Arrived(c), Try(Route(c.body, c.auth, S(Secret)), c.body.id), c.returns)
    /\ \A i \in 1..Len(c.returns) : c.returns[i] \in Outcomes(FullDb, c.calls[i])

\* C12: while requests overlap in any interleaving and the repository stays
\* as it was, every invocation has issued the lookups and sent the response
\* its request gets when handled alone with the same repository answers;
\* neither the other invocation nor the requests handled before change it: a
\* tools/list is answered with the catalog and an authorised tools/call is
\* run whether or not an initialize was handled before.
C12_HandledIndependently ==
    /\ db = FullDb
    /\ \A s \in Slots :
          conc[s].pc # "idle" =>
              /\ AsAlone(conc[s])
              /\ conc[s].body.method = "tools/list" =>
                    /\ conc[s].pc = "done"
                    /\ conc[s].res = [status |-> 200,
                                      body |-> [jsonrpc |-> "2.0", id |-> conc[s].body.id,
                                                result |-> [tools |-> Catalog]]]
              /\ (/\ conc[s].body.method = "tools/call"
                  /\ conc[s].auth = S(<<"Bearer ", "s3cret">>)) => conc[s].calls # <<>>

\* a get_course_details answered in full while the other invocation, which
\* arrived in between, is still waiting for a lookup, no initialize seen
C12_Witness ==
    /\ ~initSeen
    /\ conc[1].pc = "done"
    /\ conc[1].body.params.name = "get_course_details"
    /\ Len(conc[1].returns) = 4
    /\ conc[1].res.status = 200
    /\ IsTextResult(conc[1].res.body)
    /\ conc[2].pc = "courseName"
    /\ Len(conc[2].returns) = 1

\* a tools/list answered after an initialize was handled, while a call waits
C12_AfterInitializeCase ==
    /\ initSeen
    /\ conc[1].pc = "done"
    /\ conc[1].body.method = "tools/list"
    /\ conc[2].pc = "media"

====
